---- MODULE Spec2Model ----
(***************************************************************************)
(* Model of bplim_utils/logger.py: the BPLIMLogger class (a logger that    *)
(* claims a class-wide "active logger" slot and swaps sys.stdout and       *)
(* sys.stderr for DualOutput tees) and the DualOutput tee itself; and of    *)
(* bplim_utils/runner.py: run_script, which executes a script file in the  *)
(* caller's global namespace.                                              *)
(*                                                                         *)
(* Every action is one call of a method, with the exception it raises (if  *)
(* any) and the effects it had before raising.  `result` records how the   *)
(* last call ended, `out` the writes the last call made.                   *)
(***************************************************************************)
EXTENDS Integers, Sequences, FiniteSets, TLC

VARIABLES
    loggers,             \* the BPLIMLogger objects constructed so far, by identity 1..n
    active_logger,       \* BPLIMLogger._active_logger (NoLogger is None)
    active_logger_path,  \* BPLIMLogger._active_logger_path (NoPath is None)
    sys_stdout,          \* sys.stdout
    sys_stderr,          \* sys.stderr
    files,               \* the file objects returned by open(), by identity 1..n
    initialized,         \* history: the loggers whose init() has completed
    caller_globals,      \* the global namespace of the caller of run_script
    result,              \* how the last call ended
    out                  \* the writes made by the last call, in order

vars == <<loggers, active_logger, active_logger_path, sys_stdout, sys_stderr,
          files, initialized, caller_globals, result, out>>

----------------------------------------------------------------------------
(* Bounds *)

MaxInst == 2      \* BPLIMLogger objects that can be constructed
MaxFiles == 3     \* calls of open() that succeed

----------------------------------------------------------------------------
(* Values *)

NoLogger == 0
NoFile == 0
NoPath == <<>>

\* A path is the sequence of its components; an absolute path starts with "/".
Cwd == <<"/", "w">>
\* The arguments of the constructions: a relative path, overwritten.
Args == { [log_file |-> <<".", "a.log">>, append |-> FALSE] }

\* The texts a caller writes to the standard streams, as sequences of characters.
Texts == { <<"h", "i">>, <<" ", " ">>, <<>> }

Whitespace == {" ", "\n", "\t"}

RECURSIVE normpath(_)
normpath(p) ==
    IF p = <<>> THEN <<>>
    ELSE IF Head(p) = "." THEN normpath(Tail(p))
    ELSE <<Head(p)>> \o normpath(Tail(p))

\* os.path.abspath: joins a relative path to the working directory, normalises
abspath(p) ==
    IF p # <<>> /\ Head(p) = "/" THEN normpath(p) ELSE normpath(Cwd \o p)

RECURSIVE lstrip(_)
lstrip(s) ==
    IF s # <<>> /\ Head(s) \in Whitespace THEN lstrip(Tail(s)) ELSE s

RECURSIVE rstrip(_)
rstrip(s) ==
    IF s # <<>> /\ s[Len(s)] \in Whitespace THEN rstrip(SubSeq(s, 1, Len(s) - 1)) ELSE s

\* a test of the message that strips nothing
strip_nothing(s) == s

\* str.strip
strip(s) == rstrip(lstrip(s))

\* f"\n[{datetime.now().strftime('%Y-%m-%d %H:%M:%S')}]\n"
timestamp == <<"\n", "[%Y-%m-%d %H:%M:%S]", "\n">>

\* the real streams of the process
RealStdout == [kind |-> "real", name |-> "stdout"]
RealStderr == [kind |-> "real", name |-> "stderr"]

\* DualOutput(file, stream, is_stdout)
DualOutput(file, stream, is_stdout) ==
    [kind |-> "tee", file |-> file, stream |-> stream, is_stdout |-> is_stdout]

\* one write that reached a destination: a real stream (con) or a file object
ConsoleWrite(name, data) == [con |-> name, file |-> NoFile, data |-> data]
FileEvent(f, data) == [con |-> "", file |-> f, data |-> data]

Ok(ev) == [ev |-> ev, raised |-> "none"]
Raise(ev, exc) == [ev |-> ev, raised |-> exc]

\* file.write(data); file.flush() on the file object f (None when f = NoFile)
FileWrite(f, data, fl) ==
    IF f = NoFile THEN Raise(<<>>, "AttributeError")
    ELSE IF fl[f].closed THEN Raise(<<>>, "ValueError")
    ELSE Ok(<<FileEvent(f, data)>>)

RECURSIVE StreamWrite(_, _, _)

\* DualOutput.write
DualOutput_write(self, message, fl) ==
    LET formatted_message ==
            IF self.is_stdout /\ strip(message) # <<>>
            THEN message \o timestamp
            ELSE message
        r1 == StreamWrite(self.stream, message, fl)
    IN  IF r1.raised # "none" THEN r1
        ELSE LET r2 == FileWrite(self.file, formatted_message, fl)
             IN  [ev |-> r1.ev \o r2.ev, raised |-> r2.raised]

\* stream.write(message) on whatever object stands for the stream
StreamWrite(s, message, fl) ==
    IF s.kind = "real" THEN Ok(<<ConsoleWrite(s.name, message)>>)
    ELSE DualOutput_write(s, message, fl)

\* print(text): sys.stdout.write(text) then sys.stdout.write("\n")
print(text, stdout, fl) ==
    LET r1 == StreamWrite(stdout, text, fl)
    IN  IF r1.raised # "none" THEN r1
        ELSE LET r2 == StreamWrite(stdout, <<"\n">>, fl)
             IN  [ev |-> r1.ev \o r2.ev, raised |-> r2.raised]

Separator == "-x130"

\* BPLIMLogger._build_status_message
build_status_message(self, action) ==
    LET base_indent == IF action = "resumed" THEN "8 spaces" ELSE "7 spaces"
    IN  <<"\n", Separator, "\n", base_indent, "log:  ">> \o abspath(self.log_file)
        \o <<"\n", " ", action, " on:  ", "%d %b %Y, %H:%M:%S", "\n", Separator, "\n\n">>

IsBanner(data) == Len(data) > 1 /\ data[2] = Separator

\* a status message that is written to the console only
write_status_console_only(self, message, fl) ==
    StreamWrite(self.original_stdout, message, fl)

\* BPLIMLogger._write_status: a file object, open or closed, is truthy
write_status(self, message, fl) ==
    LET r1 == IF self.current_log # NoFile
              THEN FileWrite(self.current_log, message, fl)
              ELSE Ok(<<>>)
    IN  IF r1.raised # "none" THEN r1
        ELSE LET r2 == StreamWrite(self.original_stdout, message, fl)
             IN  [ev |-> r1.ev \o r2.ev, raised |-> r2.raised]

\* the two tees with their timestamp flags exchanged
redirect_streams_swapped(self) ==
    [stdout |-> DualOutput(self.current_log, self.original_stdout, FALSE),
     stderr |-> DualOutput(self.current_log, self.original_stderr, TRUE)]

\* BPLIMLogger._redirect_streams: the new values of sys.stdout, sys.stderr
redirect_streams(self) ==
    [stdout |-> DualOutput(self.current_log, self.original_stdout, TRUE),
     stderr |-> DualOutput(self.current_log, self.original_stderr, FALSE)]

\* BPLIMLogger._restore_streams
restore_streams(self) ==
    [stdout |-> self.original_stdout, stderr |-> self.original_stderr]

----------------------------------------------------------------------------
(* How a call ended *)

Returned(op, i) ==
    [op |-> op, inst |-> i, raised |-> "none", path |-> NoPath, noop |-> FALSE, text |-> <<>>]
ReturnedEarly(op, i) ==
    [op |-> op, inst |-> i, raised |-> "none", path |-> NoPath, noop |-> TRUE, text |-> <<>>]
Raised(op, i, exc) ==
    [op |-> op, inst |-> i, raised |-> exc, path |-> NoPath, noop |-> FALSE, text |-> <<>>]
\* LogOpenedError(lof_file)
LogOpenedError(lof_file) ==
    [op |-> "BPLIMLogger", inst |-> NoLogger, raised |-> "LogOpenedError",
     path |-> lof_file, noop |-> FALSE, text |-> <<>>]

----------------------------------------------------------------------------
(* Namespaces: the value bound to "__file__", "__name__" and to a variable x
   of the scripts; values are sequences, as paths are *)

Unbound == <<"<unbound>">>
None == <<"None">>
MainFile == <<"/", "w", "main.py">>
MainGlobals == [file |-> MainFile, name |-> <<"__main__">>, x |-> Unbound]

Namespaces ==
    [file : {Unbound, None, MainFile},
     name : {Unbound, None, <<"__main__">>},
     x : {Unbound}]

ScriptPaths == { <<".", "step1.py">>, <<"/", "w", "step2.py">> }

\* What a script does: to each marker ("keep" it, "set" it, "del" it), to x
\* (the value it binds, Unbound to leave x alone), and whether it raises
\* after that.
Scripts ==
    [file : {"keep", "set", "del"},
     name : {"keep", "set", "del"},
     x : {Unbound, <<"1">>, <<"2">>},
     raises : BOOLEAN]

\* dict.get(key): None for a missing key
get(ns, key) == IF ns[key] = Unbound THEN None ELSE ns[key]

\* exec(code_obj, caller_globals): the namespace the script leaves behind
exec(script, ns) ==
    LET marker(op, v) == IF op = "set" THEN <<"by the script">>
                         ELSE IF op = "del" THEN Unbound
                         ELSE v
    IN  [file |-> marker(script.file, ns.file),
         name |-> marker(script.name, ns.name),
         x |-> IF script.x = Unbound THEN ns.x ELSE script.x]

\* the finally clause of run_script for one marker: set it back, or pop it
restore(old) == IF old # None THEN old ELSE Unbound

----------------------------------------------------------------------------
Init ==
    /\ loggers = <<>>
    /\ active_logger = NoLogger
    /\ active_logger_path = NoPath
    /\ sys_stdout = RealStdout
    /\ sys_stderr = RealStderr
    /\ files = <<>>
    /\ initialized = {}
    /\ caller_globals = MainGlobals
    /\ result = Returned("start", NoLogger)
    /\ out = <<>>

\* the test at the head of BPLIMLogger.__init__
SlotTaken ==
    /\ active_logger # NoLogger
    /\ ~loggers[active_logger].is_closed

\* a constructor that empties the slot when it reports the conflict
BPLIMLogger_evicts(log_file, append) ==
    IF SlotTaken
    THEN /\ result' = LogOpenedError(active_logger_path)
         /\ active_logger' = NoLogger
         /\ active_logger_path' = NoPath
         /\ out' = <<>>
         /\ UNCHANGED <<loggers, sys_stdout, sys_stderr, files, initialized>>
    ELSE /\ Len(loggers) < MaxInst
         /\ loggers' = Append(loggers, [log_file |-> log_file,
                                        append |-> append,
                                        is_closed |-> TRUE,
                                        is_on |-> FALSE,
                                        original_stdout |-> sys_stdout,
                                        original_stderr |-> sys_stderr,
                                        current_log |-> NoFile])
         /\ active_logger' = Len(loggers) + 1
         /\ active_logger_path' = abspath(log_file)
         /\ result' = Returned("BPLIMLogger", Len(loggers) + 1)
         /\ out' = <<>>
         /\ UNCHANGED <<sys_stdout, sys_stderr, files, initialized>>

\* BPLIMLogger.__init__(log_file, append)
BPLIMLogger(log_file, append) ==
    IF SlotTaken
    THEN /\ result' = LogOpenedError(active_logger_path)
         /\ out' = <<>>
         /\ UNCHANGED <<loggers, active_logger, active_logger_path, sys_stdout,
                        sys_stderr, files, initialized>>
    ELSE /\ Len(loggers) < MaxInst
         /\ LET self == [log_file |-> log_file,
                         append |-> append,
                         is_closed |-> TRUE,
                         is_on |-> FALSE,
                         original_stdout |-> sys_stdout,
                         original_stderr |-> sys_stderr,
                         current_log |-> NoFile]
                i == Len(loggers) + 1
            IN  /\ loggers' = Append(loggers, self)
                /\ active_logger' = i
                /\ active_logger_path' = abspath(log_file)
                /\ result' = Returned("BPLIMLogger", i)
         /\ out' = <<>>
         /\ UNCHANGED <<sys_stdout, sys_stderr, files, initialized>>

\* the test at the head of BPLIMLogger.init
AlreadyInitialized(self) == ~self.is_closed

\* BPLIMLogger.init; open() may fail (OSError) and then nothing has changed
init(i) ==
    LET self == loggers[i] IN
    IF AlreadyInitialized(self)
    THEN /\ result' = Raised("init", i, "Exception")
         /\ out' = <<>>
         /\ UNCHANGED <<loggers, active_logger, active_logger_path, sys_stdout,
                        sys_stderr, files, initialized>>
    ELSE \E opened \in BOOLEAN :
         IF ~opened
         THEN /\ result' = Raised("init", i, "OSError")
              /\ out' = <<>>
              /\ UNCHANGED <<loggers, active_logger, active_logger_path, sys_stdout,
                             sys_stderr, files, initialized>>
         ELSE /\ Len(files) < MaxFiles
              /\ LET f == Len(files) + 1
                     fl == Append(files, [name |-> self.log_file,
                                          mode |-> IF self.append THEN "a" ELSE "w",
                                          closed |-> FALSE])
                     self1 == [self EXCEPT !.current_log = f]
                     ws == write_status(self1, build_status_message(self1, "opened"), fl)
                     streams == redirect_streams(self1)
                 IN  /\ files' = fl
                     /\ out' = ws.ev
                     /\ IF ws.raised # "none"
                        THEN /\ loggers' = [loggers EXCEPT ![i] = self1]
                             /\ result' = Raised("init", i, ws.raised)
                             /\ UNCHANGED <<sys_stdout, sys_stderr, initialized>>
                        ELSE /\ loggers' = [loggers EXCEPT ![i] =
                                               [self1 EXCEPT !.is_closed = FALSE, !.is_on = TRUE]]
                             /\ sys_stdout' = streams.stdout
                             /\ sys_stderr' = streams.stderr
                             /\ initialized' = initialized \cup {i}
                             /\ result' = Returned("init", i)
              /\ UNCHANGED <<active_logger, active_logger_path>>

\* on() without its early return
AlreadyOn_never(self) == FALSE

\* the test at the head of BPLIMLogger.on
AlreadyOn(self) == self.is_on

\* BPLIMLogger.on
on(i) ==
    LET self == loggers[i] IN
    IF AlreadyOn(self)
    THEN LET p == print(<<"Log file already on">>, sys_stdout, files)
         IN  /\ out' = p.ev
             /\ result' = IF p.raised # "none" THEN Raised("on", i, p.raised)
                          ELSE ReturnedEarly("on", i)
             /\ UNCHANGED <<loggers, active_logger, active_logger_path, sys_stdout,
                            sys_stderr, files, initialized>>
    ELSE LET ws == write_status(self, build_status_message(self, "resumed"), files)
             streams == redirect_streams(self)
         IN  /\ out' = ws.ev
             /\ IF ws.raised # "none"
                THEN /\ result' = Raised("on", i, ws.raised)
                     /\ UNCHANGED <<loggers, sys_stdout, sys_stderr>>
                ELSE /\ sys_stdout' = streams.stdout
                     /\ sys_stderr' = streams.stderr
                     /\ loggers' = [loggers EXCEPT ![i].is_on = TRUE]
                     /\ result' = Returned("on", i)
             /\ UNCHANGED <<active_logger, active_logger_path, files, initialized>>

\* the test at the head of BPLIMLogger.off
AlreadyOff(self) == ~self.is_on

\* BPLIMLogger.off
off(i) ==
    LET self == loggers[i] IN
    IF AlreadyOff(self)
    THEN LET p == print(<<"Log file already off">>, sys_stdout, files)
         IN  /\ out' = p.ev
             /\ result' = IF p.raised # "none" THEN Raised("off", i, p.raised)
                          ELSE ReturnedEarly("off", i)
             /\ UNCHANGED <<loggers, active_logger, active_logger_path, sys_stdout,
                            sys_stderr, files, initialized>>
    ELSE LET ws == write_status(self, build_status_message(self, "paused"), files)
             streams == restore_streams(self)
         IN  /\ out' = ws.ev
             /\ IF ws.raised # "none"
                THEN /\ result' = Raised("off", i, ws.raised)
                     /\ UNCHANGED <<loggers, sys_stdout, sys_stderr>>
                ELSE /\ sys_stdout' = streams.stdout
                     /\ sys_stderr' = streams.stderr
                     /\ loggers' = [loggers EXCEPT ![i].is_on = FALSE]
                     /\ result' = Returned("off", i)
             /\ UNCHANGED <<active_logger, active_logger_path, files, initialized>>

\* a close() that empties the slot whoever holds it
HoldsSlot_always(i) == TRUE

\* the test at the end of BPLIMLogger.close
HoldsSlot(i) == active_logger = i

\* BPLIMLogger.close
close(i) ==
    LET self == loggers[i] IN
    IF self.is_closed
    THEN /\ result' = ReturnedEarly("close", i)
         /\ out' = <<>>
         /\ UNCHANGED <<loggers, active_logger, active_logger_path, sys_stdout,
                        sys_stderr, files, initialized>>
    ELSE LET ws == write_status(self, build_status_message(self, "closed"), files)
             streams == restore_streams(self)
         IN  /\ out' = ws.ev
             /\ IF ws.raised # "none"
                THEN /\ result' = Raised("close", i, ws.raised)
                     /\ UNCHANGED <<loggers, active_logger, active_logger_path,
                                    sys_stdout, sys_stderr, files>>
                ELSE /\ files' = [files EXCEPT ![self.current_log].closed = TRUE]
                     /\ sys_stdout' = streams.stdout
                     /\ sys_stderr' = streams.stderr
                     /\ loggers' = [loggers EXCEPT ![i].is_closed = TRUE,
                                                   ![i].is_on = FALSE]
                     /\ IF HoldsSlot(i)
                        THEN /\ active_logger' = NoLogger
                             /\ active_logger_path' = NoPath
                        ELSE UNCHANGED <<active_logger, active_logger_path>>
                     /\ result' = Returned("close", i)
             /\ UNCHANGED initialized

\* a caller's sys.stdout.write(text)
stdout_write(text) ==
    LET w == StreamWrite(sys_stdout, text, files)
    IN  /\ out' = w.ev
        /\ result' = [(IF w.raised # "none" THEN Raised("stdout.write", NoLogger, w.raised)
                        ELSE Returned("stdout.write", NoLogger)) EXCEPT !.text = text]
        /\ UNCHANGED <<loggers, active_logger, active_logger_path, sys_stdout,
                       sys_stderr, files, initialized>>

\* a caller's sys.stderr.write(text)
stderr_write(text) ==
    LET w == StreamWrite(sys_stderr, text, files)
    IN  /\ out' = w.ev
        /\ result' = [(IF w.raised # "none" THEN Raised("stderr.write", NoLogger, w.raised)
                        ELSE Returned("stderr.write", NoLogger)) EXCEPT !.text = text]
        /\ UNCHANGED <<loggers, active_logger, active_logger_path, sys_stdout,
                       sys_stderr, files, initialized>>

Construct == (\E a \in Args : BPLIMLogger(a.log_file, a.append)) /\ UNCHANGED caller_globals
CallInit == (\E i \in DOMAIN loggers : init(i)) /\ UNCHANGED caller_globals
CallOn == (\E i \in DOMAIN loggers : on(i)) /\ UNCHANGED caller_globals
CallOff == (\E i \in DOMAIN loggers : off(i)) /\ UNCHANGED caller_globals
CallClose == (\E i \in DOMAIN loggers : close(i)) /\ UNCHANGED caller_globals
WriteOut == (\E text \in Texts : stdout_write(text)) /\ UNCHANGED caller_globals
WriteErr == (\E text \in Texts : stderr_write(text)) /\ UNCHANGED caller_globals

Next ==
    \/ Construct
    \/ CallInit
    \/ CallOn
    \/ CallOff
    \/ CallClose
    \/ WriteOut
    \/ WriteErr

Spec == Init /\ [][Next]_vars

\* One logger, no other logger in use: the only construction is the first one.
ConstructOne == loggers = <<>> /\ Construct

NextOne ==
    \/ ConstructOne
    \/ CallInit
    \/ CallOn
    \/ CallOff
    \/ CallClose
    \/ WriteOut
    \/ WriteErr

SpecOne == Init /\ [][NextOne]_vars

----------------------------------------------------------------------------
(* run_script *)

\* run_script(script_path), the file holding `script` when it can be read
\* (found) and compiled (valid)
run_script(script_path, script, found, valid) ==
    LET path == abspath(script_path)
        old_file == get(caller_globals, "file")
        old_name == get(caller_globals, "name")
        overridden == [caller_globals EXCEPT !.file = path, !.name = <<"__main__">>]
        after == exec(script, overridden)
        restored == [after EXCEPT
                        !.file = restore(old_file),
                        !.name = restore(old_name)]
    IN  /\ IF ~found
           THEN /\ result' = [Raised("run_script", NoLogger, "OSError") EXCEPT !.path = path]
                /\ UNCHANGED caller_globals
           ELSE IF ~valid
           THEN /\ result' = [Raised("run_script", NoLogger, "SyntaxError") EXCEPT !.path = path]
                /\ UNCHANGED caller_globals
           ELSE /\ caller_globals' = restored
                /\ result' = [(IF script.raises
                                THEN Raised("run_script", NoLogger, "ScriptError")
                                ELSE Returned("run_script", NoLogger)) EXCEPT !.path = path]
        /\ out' = <<>>
        /\ UNCHANGED <<loggers, active_logger, active_logger_path, sys_stdout,
                       sys_stderr, files, initialized>>

RunScript ==
    \E script_path \in ScriptPaths, script \in Scripts, found \in BOOLEAN, valid \in BOOLEAN :
        run_script(script_path, script, found, valid)

\* the caller's namespace can be any of Namespaces when the first script runs
InitRunner ==
    /\ loggers = <<>>
    /\ active_logger = NoLogger
    /\ active_logger_path = NoPath
    /\ sys_stdout = RealStdout
    /\ sys_stderr = RealStderr
    /\ files = <<>>
    /\ initialized = {}
    /\ caller_globals \in Namespaces
    /\ result = Returned("start", NoLogger)
    /\ out = <<>>

NextRunner == RunScript

SpecRunner == InitRunner /\ [][NextRunner]_vars

----------------------------------------------------------------------------
(* The states of the specification's LoggerInstance, read off the object *)

Uninitialized(i) == loggers[i].is_closed /\ i \notin initialized
Active(i) == ~loggers[i].is_closed /\ loggers[i].is_on
Paused(i) == ~loggers[i].is_closed /\ ~loggers[i].is_on
Closed(i) == loggers[i].is_closed /\ i \in initialized

\* the call that made the step was op, and it was made on a logger
Called(op) == result'.op = op /\ result'.inst \in DOMAIN loggers
Frame(i) ==
    /\ loggers'[i] = loggers[i]
    /\ UNCHANGED <<files, sys_stdout, sys_stderr, active_logger, active_logger_path>>
NoBanner(ev) == \A k \in DOMAIN ev : ~IsBanner(ev[k].data)

----------------------------------------------------------------------------
(* Claims *)

\* C1: at most one logger instance is Active or Paused, whatever calls were
\* made on whatever instances.
C1_Singleton ==
    Cardinality({i \in DOMAIN loggers : Active(i) \/ Paused(i)}) <= 1

\* C2: a construction fails with the conflict error whenever the slot is held
\* by an instance that is not Closed, an Uninitialized holder included, and the
\* slot then stays with its holder.
C2_ConflictUnlessClosed ==
    [][(/\ result'.op = "BPLIMLogger"
        /\ active_logger # NoLogger
        /\ ~Closed(active_logger))
       => /\ result'.raised = "LogOpenedError"
          /\ active_logger' = active_logger
          /\ active_logger_path' = active_logger_path]_vars

\* C3: while some instance is Active or Paused a construction fails with the
\* conflict error, which carries the absolute path of that instance.
C3_ConflictNamesActive ==
    [][(/\ result'.op = "BPLIMLogger"
        /\ \E i \in DOMAIN loggers : Active(i) \/ Paused(i))
       => /\ result'.raised = "LogOpenedError"
          /\ \E i \in DOMAIN loggers :
                /\ Active(i) \/ Paused(i)
                /\ result'.path = abspath(loggers[i].log_file)]_vars

\* C4: whenever a construction would fail with the conflict error, close() on
\* the slot holder empties the slot, reference and path, so that the next
\* construction succeeds.
C4_CloseHolderFreesSlot ==
    [][(/\ SlotTaken
        /\ Called("close")
        /\ result'.inst = active_logger)
       => /\ active_logger' = NoLogger
          /\ active_logger_path' = NoPath
          /\ ~SlotTaken']_vars

\* C5: with one logger, once close() has returned the standard streams are the
\* ones that were current when the logger was constructed.
C5_CloseRestoresStreams ==
    (result.op = "close" /\ result.raised = "none")
    => /\ sys_stdout = RealStdout
       /\ sys_stderr = RealStderr

\* C6: init() on an instance that is Active, Paused or Closed fails with the
\* already-initialized error and changes nothing (the calls in which open()
\* itself fails aside: those say nothing about the state machine).
C6_InitOnlyFromUninitialized ==
    [][(/\ Called("init")
        /\ ~Uninitialized(result'.inst)
        /\ result'.raised # "OSError")
       => /\ result'.raised = "Exception"
          /\ Frame(result'.inst)]_vars

\* C7: on() while Active and off() while Paused are no-ops: no banner reaches
\* the file or the console, the streams are not swapped, the state stays, and
\* nothing is raised.
C7_ToggleNoop ==
    [][(\/ Called("on") /\ Active(result'.inst)
        \/ Called("off") /\ Paused(result'.inst))
       => /\ result'.raised = "none"
          /\ NoBanner(out')
          /\ Frame(result'.inst)]_vars

C7_Witness ==
    /\ result.op = "on"
    /\ result.noop
    /\ Active(result.inst)
    /\ out # <<>>

\* C8: on() and off() never raise, in whatever state the instance is.
C8_ToggleNeverRaises ==
    result.op \in {"on", "off"} => result.raised = "none"

\* C9: close() never raises, and on an instance that is Closed or was never
\* initialized it changes nothing and writes nothing.
C9_CloseAlwaysSafe ==
    [][Called("close")
       => /\ result'.raised = "none"
          /\ (loggers[result'.inst].is_closed
              => Frame(result'.inst) /\ out' = <<>>)]_vars

\* C10: on() on an instance that was never initialized installs no tee as a
\* standard stream and leaves the instance as it was.
C10_OnFromUninitialized ==
    [][(Called("on") /\ Uninitialized(result'.inst))
       => /\ sys_stdout' = sys_stdout
          /\ sys_stderr' = sys_stderr
          /\ loggers'[result'.inst] = loggers[result'.inst]]_vars

\* the step was a caller's write to one of the standard streams
Wrote == result'.op \in {"stdout.write", "stderr.write"}
\* the stream that a write of the step went to
Written == IF result'.op = "stdout.write" THEN sys_stdout ELSE sys_stderr
HasNonWhitespace(text) == \E k \in DOMAIN text : text[k] \notin Whitespace

C13_MarkersRestored ==
    [][(result'.op = "run_script" /\ result'.raised \in {"none", "ScriptError"})
       => /\ caller_globals'.file = caller_globals.file
          /\ caller_globals'.name = caller_globals.name
          /\ (caller_globals.x # Unbound => caller_globals'.x # Unbound)]_vars

\* the instance has a file object and it is open
HandleOpen(i) ==
    /\ loggers[i].current_log # NoFile
    /\ ~files[loggers[i].current_log].closed

\* s is a tee over the stream orig that writes to the open file of instance i
TeeOf(s, i, orig, flag) ==
    /\ s.kind = "tee"
    /\ s.is_stdout = flag
    /\ s.file = loggers[i].current_log
    /\ s.stream = orig
    /\ HandleOpen(i)

\* C14: with one logger, an Active instance has its two tees installed
\* (timestamps for standard output only, its open file as sink, the saved
\* originals as passthrough); a Paused or Closed one has the saved originals
\* installed.
C14_StateMatchesStreams ==
    \A i \in DOMAIN loggers :
        /\ Active(i) => /\ TeeOf(sys_stdout, i, loggers[i].original_stdout, TRUE)
                        /\ TeeOf(sys_stderr, i, loggers[i].original_stderr, FALSE)
        /\ (Paused(i) \/ Closed(i)) => /\ sys_stdout = loggers[i].original_stdout
                                       /\ sys_stderr = loggers[i].original_stderr

C14_Witness ==
    /\ loggers # <<>>
    /\ Active(1)
    /\ result.op = "on"
    /\ ~result.noop
    /\ result.raised = "none"

\* C15: the file handle of an instance is open exactly while the instance is
\* Active or Paused, and on() and off() leave the handle alone.
C15_HandleOpenIffInUse ==
    [][/\ \A i \in DOMAIN loggers' : HandleOpen(i)' <=> (Active(i)' \/ Paused(i)')
       /\ (Called("on") \/ Called("off"))
          => /\ files' = files
             /\ loggers'[result'.inst].current_log = loggers[result'.inst].current_log]_vars

\* C16: a tee that is installed as a standard stream belongs to an Active
\* instance and writes to that instance's open file.
C16_TeeLifetime ==
    \A s \in {sys_stdout, sys_stderr} :
        s.kind = "tee"
        => \E i \in DOMAIN loggers :
              /\ Active(i)
              /\ s.file = loggers[i].current_log
              /\ HandleOpen(i)

\* the call of the step took the instance from one state to another
Effective ==
    /\ result'.raised = "none"
    /\ ~result'.noop
    /\ \/ Called("init")
       \/ Called("on") /\ Paused(result'.inst)
       \/ Called("off") /\ Active(result'.inst)
       \/ Called("close")

\* the writes of ev that are a status message exactly as it was built
PlainBanners(ev, con, f) ==
    {k \in DOMAIN ev : /\ ev[k].con = con
                       /\ ev[k].file = f
                       /\ IsBanner(ev[k].data)
                       /\ ev[k].data[Len(ev[k].data)] = "\n\n"}

\* C17: an effective init(), on(), off() or close() writes one banner to the
\* instance's file and one to the console, as built (not through a tee, which
\* would add a timestamp), and the file is open when it is written: opened by
\* this init(), not yet closed before this close().
C17_OneBannerEach ==
    [][Effective
       => LET i == result'.inst
              f == loggers'[i].current_log
          IN  /\ f # NoFile
              /\ Cardinality({k \in DOMAIN out' : out'[k].file = f}) = 1
              /\ Cardinality(PlainBanners(out', "", f)) = 1
              /\ Cardinality({k \in DOMAIN out' : out'[k].con # ""}) = 1
              /\ Cardinality(PlainBanners(out', "stdout", NoFile)) = 1
              /\ IF result'.op = "init"
                 THEN f \notin DOMAIN files /\ ~files'[f].closed
                 ELSE f = loggers[i].current_log /\ ~files[f].closed
              /\ files'[f].closed <=> (result'.op = "close")]_vars

C17_Witness ==
    /\ result.op = "close"
    /\ result.raised = "none"
    /\ ~result.noop
    /\ Len(out) >= 2

\* C18: close() on an instance that does not hold the slot leaves the slot,
\* reference and path, as it is.
C18_CloseKeepsOthersSlot ==
    [][(Called("close") /\ active_logger # result'.inst)
       => UNCHANGED <<active_logger, active_logger_path>>]_vars

C18_Witness ==
    /\ result.op = "close"
    /\ result.raised = "none"
    /\ ~result.noop
    /\ active_logger # NoLogger
    /\ active_logger # result.inst

\* C19: a construction that fails with the conflict error changes nothing:
\* not the slot, not the standard streams, not any existing instance.
C19_FailedConstructChangesNothing ==
    [][result'.raised = "LogOpenedError"
       => UNCHANGED <<loggers, files, sys_stdout, sys_stderr, active_logger,
                      active_logger_path, initialized>>]_vars

C19_Witness ==
    /\ result.raised = "LogOpenedError"
    /\ result.path = active_logger_path
    /\ Len(loggers) >= 1

\* C20: the streams an instance saved at construction are the real streams of
\* the process, never a tee.
C20_OriginalsAreReal ==
    \A i \in DOMAIN loggers :
        /\ loggers[i].original_stdout = RealStdout
        /\ loggers[i].original_stderr = RealStderr

====
